---- MODULE Spec2Model ----
(***************************************************************************)
(* Audio job pipeline of backend/server.js: the WebSocket 'audio-chunk'    *)
(* handler, the POST /transcribe handler, and the GET /audio endpoints,    *)
(* over one shared file system.  File names are sequences of characters,   *)
(* paths are sequences of path segments.                                   *)
(***************************************************************************)
EXTENDS Integers, Sequences, FiniteSets, TLC

\* ------------------------------------------------------------------ bounds
NJobs == 2
MaxClock == 2
MaxRandom == 2
MaxStem == 2
NConns == 2

Jobs == 1..NJobs
\* the ws objects that wss.on('connection') may be handed
Conns == 1..NConns
\* a connection whose opening and closing the specification does not follow
Untracked == 0

\* the sockets the front end's service creates, the messages it is asked to
\* send, and the MediaRecorders its audio service creates
MaxSockets == 3
MaxSends == 2
MaxRecorders == 2

\* ------------------------------------------------------- characters, names
Digits == <<"0", "1", "2", "3", "4", "5", "6", "7", "8", "9">>
HexDigits == <<"0", "1", "2", "3", "4", "5", "6", "7", "8", "9", "a", "b", "c", "d", "e", "f">>

\* String(n) for a small non-negative integer
NumChars(n) == IF n < 10 THEN <<Digits[n + 1]>> ELSE <<Digits[(n \div 10) + 1], Digits[(n % 10) + 1]>>

\* uuidv4(): hexadecimal groups joined by hyphens; the k-th token ever drawn
UuidChars(k) == <<HexDigits[(k % 16) + 1], "-", "4", HexDigits[(k \div 16) + 1]>>

Lower == {"a", "b", "c", "d", "e", "f", "g", "h", "i", "j", "k", "l", "m",
          "n", "o", "p", "q", "r", "s", "t", "u", "v", "w", "x", "y", "z"}
Upper == {"A", "B", "C", "D", "E", "F", "G", "H", "I", "J", "K", "L", "M",
          "N", "O", "P", "Q", "R", "S", "T", "U", "V", "W", "X", "Y", "Z"}
\* the character class [a-zA-Z0-9_-]
WordChars == Lower \cup Upper \cup {Digits[i] : i \in 1..10} \cup {"_", "-"}

ExtMp3 == <<".", "m", "p", "3">>
ExtWav == <<".", "w", "a", "v">>

LastChars(s, n) == SubSeq(s, Len(s) - n + 1, Len(s))
EndsWith(s, suffix) == Len(s) >= Len(suffix) /\ LastChars(s, Len(suffix)) = suffix

\* a pattern that forgets the ^ anchor: any suffix of the name may match
MatchesUnanchored(filename) ==
    \E k \in 1..Len(filename) :
        /\ Len(filename) - k + 1 >= 5
        /\ \/ EndsWith(filename, ExtMp3)
           \/ EndsWith(filename, ExtWav)
        /\ \A i \in k..(Len(filename) - 4) : filename[i] \in WordChars

\* filename.match(/^[a-zA-Z0-9_-]+\.(mp3|wav)$/)
MatchesAudioName(filename) ==
    /\ Len(filename) >= 5
    /\ \/ EndsWith(filename, ExtMp3)
       \/ EndsWith(filename, ExtWav)
    /\ \A i \in 1..(Len(filename) - 4) : filename[i] \in WordChars

\* `temp_${timestamp}_${uniqueId}.wav`
TempFilename(timestamp, uniqueId) ==
    <<"t", "e", "m", "p", "_">> \o NumChars(timestamp) \o <<"_">> \o UuidChars(uniqueId) \o ExtWav

\* a canonical name built from the timestamp alone
AudioMp3FilenameNoToken(timestamp, uniqueId) ==
    <<"a", "u", "d", "i", "o", "_">> \o NumChars(timestamp) \o ExtMp3

\* `audio_${timestamp}_${uniqueId}.mp3`
AudioMp3Filename(timestamp, uniqueId) ==
    <<"a", "u", "d", "i", "o", "_">> \o NumChars(timestamp) \o <<"_">> \o UuidChars(uniqueId) \o ExtMp3

\* `uploaded_${timestamp}_${uniqueId}.mp3`
UploadedMp3Filename(timestamp, uniqueId) ==
    <<"u", "p", "l", "o", "a", "d", "e", "d", "_">> \o NumChars(timestamp) \o <<"_">> \o UuidChars(uniqueId) \o ExtMp3

\* path.extname(file.originalname) || '.wav'
UploadExtension(originalExt) == IF originalExt = <<>> THEN ExtWav ELSE originalExt

\* Date.now() + '-' + Math.round(Math.random() * 1E9) + extension
MulterFilename(timestamp, random, originalExt) ==
    NumChars(timestamp) \o <<"-">> \o NumChars(random) \o UploadExtension(originalExt)

\* ------------------------------------------------------------------- paths
\* directories relative to __dirname, as sequences of segments
audioDir == << <<"a", "u", "d", "i", "o">> >>
uploadsDir == << <<"u", "p", "l", "o", "a", "d", "s">> >>

RECURSIVE SplitSegments(_, _, _)
\* the segments of s between "/" characters, empty segments included
SplitSegments(s, i, cur) ==
    IF i > Len(s) THEN <<cur>>
    ELSE IF s[i] = "/" THEN <<cur>> \o SplitSegments(s, i + 1, <<>>)
    ELSE SplitSegments(s, i + 1, Append(cur, s[i]))

RECURSIVE Normalize(_, _, _)
\* path.normalize: drop "" and ".", let ".." remove the segment before it
Normalize(segs, i, acc) ==
    IF i > Len(segs) THEN acc
    ELSE IF segs[i] = <<>> \/ segs[i] = <<".">> THEN Normalize(segs, i + 1, acc)
    ELSE IF segs[i] = <<".", ".">> THEN
        IF Len(acc) > 0 /\ acc[Len(acc)] # <<".", ".">>
        THEN Normalize(segs, i + 1, SubSeq(acc, 1, Len(acc) - 1))
        ELSE Normalize(segs, i + 1, Append(acc, segs[i]))
    ELSE Normalize(segs, i + 1, Append(acc, segs[i]))

\* path.join(dir, filename)
PathJoin(dir, filename) == Normalize(dir \o SplitSegments(filename, 1, <<>>), 1, <<>>)

\* a path lies inside dir when it is dir followed by exactly one file name
InDir(path, dir) == Len(path) = Len(dir) + 1 /\ SubSeq(path, 1, Len(dir)) = dir

\* ------------------------------------------------------------------- state
VARIABLES
    now,        \* Date.now(), in milliseconds
    uuidCount,  \* number of uuidv4() tokens drawn so far
    fs,         \* the file system: path -> file
    job,        \* one record per request (audio-chunk message or POST /transcribe)
    dl,         \* the GET /audio/:filename request in flight
    listing,    \* the GET /audio request and its answer
    clients,    \* the Set clients: the registry of connections
    sockets,    \* each ws object: its state and what the connection handler sent on it
    service,    \* the front end's WebSocketService and the sockets it has created
    recorder    \* the front end's AudioService, its MediaRecorders and the recorder component

vars == <<now, uuidCount, fs, job, dl, listing, clients, sockets, service, recorder>>

\* the state of the server and the state of the front end
backend == <<now, uuidCount, fs, job, dl, listing, clients, sockets>>
frontend == <<service, recorder>>

Undefined == <<"undefined">>
NoPath == <<>>

Exists(path) == path \in DOMAIN fs
\* fs.existsSync(path)
existsSync(path) == Exists(path)

WriteFile(f, path, file) == [q \in (DOMAIN f) \cup {path} |-> IF q = path THEN file ELSE f[q]]
RemoveFile(f, path) == [q \in (DOMAIN f) \ {path} |-> f[q]]

\* a file: what it holds, whose it is, and its stats.birthtime
\* and stats.mtime, the clock at its last write
StagingFile(j, complete, created) ==
    [kind |-> "staging", job |-> j, complete |-> complete, created |-> created, modified |-> created]
CanonicalFile(j, complete, created) ==
    [kind |-> "canonical", job |-> j, complete |-> complete, created |-> created, modified |-> now]

\* the audio-chunk messages a client may send: audioData missing, empty, a base64
\* string of sound audio, a string that is not base64 at all, or some other
\* JSON value; targetLanguage and sessionId given or not
AudioChunkMessages ==
    {[audioData |-> "undefined", targetLanguage |-> "undefined", sessionId |-> Undefined],
     [audioData |-> "empty", targetLanguage |-> "undefined", sessionId |-> Undefined],
     [audioData |-> "object", targetLanguage |-> "undefined", sessionId |-> Undefined],
     [audioData |-> "base64", targetLanguage |-> "undefined", sessionId |-> Undefined],
     [audioData |-> "notbase64", targetLanguage |-> "undefined", sessionId |-> Undefined],
     [audioData |-> "base64", targetLanguage |-> "es", sessionId |-> <<"s", "1">>]}
UploadTargetLanguages == {"undefined", "", "auto"}
OriginalExts == {<<>>}
MockTranscription == "mock transcription (Archivo: NKB)"

\* const { targetLanguage = 'en' } = ...
DefaultEn(targetLanguage) == IF targetLanguage = "undefined" THEN "en" ELSE targetLanguage

\* text.trim() is truthy
NonBlank(text) == text # "" /\ text # " "

Response(status, transcription, audioFile, translation, error) ==
    [status |-> status, transcription |-> transcription, audioFile |-> audioFile,
     translation |-> translation, error |-> error]
NoResponse == Response(0, "", Undefined, "undefined", <<>>)

\* res.status(...).json(...): one more response written for the request of r
Respond(r, response) == [r EXCEPT !.response = response, !.responses = @ + 1]

IdleJob ==
    [mode |-> "none", pc |-> "idle", timestamp |-> 0, uniqueId |-> 0,
     sourcePath |-> NoPath, mp3Filename |-> <<>>, targetLanguage |-> "undefined",
     sessionId |-> Undefined, text |-> "", pendingError |-> <<>>, outcome |-> "",
     out |-> <<>>, response |-> NoResponse, trace |-> <<>>,
     translateResult |-> "", cleanupWarned |-> FALSE, input |-> "",
     ws |-> Untracked, sentTo |-> {}, calls |-> 0, responses |-> 0,
     requested |-> "undefined"]

NoSocket == [state |-> "none", received |-> <<>>]

IdleListing == [pc |-> "idle", status |-> 0, files |-> <<>>]

IdleDownload == [pc |-> "idle", filename |-> <<>>, status |-> 0, touched |-> {}, served |-> NoPath]

\* the WebSocketService after its constructor, which calls connect(): one
\* socket created and connecting, nothing scheduled, connected$ at false
Sockets == 1..MaxSockets
NoSocketYet == 0
ServiceConstructed ==
    [socket |-> 1,
     readyState |-> [s \in Sockets |-> IF s = 1 THEN "connecting" ELSE "none"],
     created |-> 1, timers |-> <<>>, connected |-> FALSE,
     wire |-> <<>>, dropped |-> 0, detached |-> {}]

\* the AudioService and the recorder component after construction: no
\* MediaRecorder, recording$ at false, no timer
Recorders == 1..MaxRecorders
NoRecorder == 0
RecorderConstructed ==
    [pc |-> "idle", mediaRecorder |-> NoRecorder, audioStream |-> NoRecorder,
     state |-> [r \in Recorders |-> "none"],
     onstop |-> [r \in Recorders |-> "none"],
     events |-> [r \in Recorders |-> <<>>],
     created |-> 0, recording |-> FALSE, recordingTimer |-> FALSE,
     started |-> FALSE, resolved |-> 0, ended |-> {}]

Init ==
    /\ service = ServiceConstructed
    /\ recorder = RecorderConstructed
    /\ now = 1
    /\ uuidCount = 0
    /\ fs = << >>
    /\ job = [j \in Jobs |-> IdleJob]
    /\ dl = IdleDownload
    /\ listing = IdleListing
    /\ clients = {}
    /\ sockets = [c \in Conns |-> NoSocket]

Msg(type, text, audioFile, sessionId, message) ==
    [type |-> type, text |-> text, audioFile |-> audioFile, sessionId |-> sessionId, message |-> message]

\* { type: 'error', message: prefix + detail }
ErrorMsg(prefix, detail) == Msg("error", "", Undefined, Undefined, <<prefix, detail>>)

\* sessionId || uniqueId
SessionOrUnique(sessionId, uniqueId) == IF sessionId = Undefined THEN UuidChars(uniqueId) ELSE sessionId

mp3Path(r) == PathJoin(audioDir, r.mp3Filename)

Log(r, event) == [r EXCEPT !.trace = Append(@, event)]

\* a send that goes to every connection of the registry
Broadcast(r) == clients

\* the connections a notification of job r goes to: ws.send on the ws the
\* handler was called with
Recipients(r) == {r.ws}

\* ws.send(JSON.stringify(msg))
Send(r, msg) == [r EXCEPT !.out = Append(@, msg), !.sentTo = @ \cup Recipients(r)]

\* ------------------------------------------------ cleanup and handler exits
\* the handler has returned
Finish(r, outcome) == [r EXCEPT !.pc = "done", !.outcome = outcome]

\* a cleanup that unlinks the converted file
CleanupPathMp3(r) == PathJoin(audioDir, r.mp3Filename)

\* the path the cleanup block tests and unlinks
CleanupPath(r) == r.sourcePath

\* a handler that writes its 500 after the finally block on every path
AfterFinallyAnswers(r) ==
    Finish(Respond(r, Response(500, "", Undefined, "undefined",
                               <<"Transcription failed">> \o r.pendingError)), "FAILED")

\* end of POST /transcribe after its finally block: the outer catch answers 500
\* when the inner try threw, otherwise the 200 has already been sent
AfterFinally(r) ==
    IF r.pendingError # <<>>
    THEN Finish(Respond(r, Response(500, "", Undefined, "undefined",
                                    <<"Transcription failed", r.pendingError[1]>>)), "FAILED")
    ELSE Finish(r, "COMPLETED")

\* if (fs.existsSync(path)) await fs.promises.unlink(path)
BeginCleanup(r, f) ==
    IF CleanupPath(r) \in DOMAIN f
    THEN [r EXCEPT !.pc = "unlinking"]
    ELSE IF r.mode = "ws" THEN Finish(r, "COMPLETED") ELSE AfterFinally(r)

\* a catch that reports and then rethrows, so that the catch of ws.on('message')
\* reports once more
WsCatchRethrow(r, detail) ==
    Finish(Send(Send(r, ErrorMsg("Transcription failed: ", detail)), ErrorMsg("", detail)), "FAILED")

\* a catch that reports a fixed text instead of error.message
WsCatchGeneric(r, detail) ==
    Finish(Send(r, ErrorMsg("Transcription failed: ", "unknown error")), "FAILED")

\* catch (error) of handleAudioChunk: one error notification, no cleanup
WsCatch(r, detail) ==
    Finish(Send(r, ErrorMsg("Transcription failed: ", detail)), "FAILED")

\* an inner try without the finally block: straight to the outer catch
UploadCatchNoFinally(r, detail, f) == AfterFinally([r EXCEPT !.pendingError = <<detail>>])

\* an exception inside the inner try of POST /transcribe: finally, then catch
UploadCatch(r, detail, f) == BeginCleanup([r EXCEPT !.pendingError = <<detail>>], f)

\* a pipeline stage of job r threw
Throw(r, detail, f) == IF r.mode = "ws" THEN WsCatch(r, detail) ELSE UploadCatch(r, detail, f)

\* ------------------------------------------------------------------- clock
\* the milliseconds that may have passed since the clock was last read
Elapsed == {ms \in {0, 1} : now + ms <= MaxClock}

\* ------------------------------------------------ streaming: handleAudioChunk
\* a decoder that accepts a value of any type
DecodesAny(audioData) == TRUE

\* typeof audioData === 'string': Buffer.from(base64Data, 'base64') skips what
\* is not base64 and returns a buffer for any string
Decodes(audioData) == audioData \in {"base64", "notbase64"}


\* ws.on('message') with type 'audio-chunk': validation, names, saveAudioChunk
\* up to its await of writeFile
HandleAudioChunk(j, ws, data, ms) ==
    /\ job[j].pc = "idle"
    /\ now' = now + ms
    /\ \A i \in 1..(j - 1) : job[i].pc # "idle"
    /\ LET audioData == data.audioData
           targetLanguage == data.targetLanguage
           sessionId == data.sessionId
           r0 == [job[j] EXCEPT !.mode = "ws", !.ws = ws, !.sessionId = sessionId, !.input = audioData,
                                !.requested = targetLanguage,
                                !.targetLanguage = DefaultEn(targetLanguage)]
           r1 == [r0 EXCEPT !.timestamp = now', !.uniqueId = uuidCount + 1,
                            !.sourcePath = PathJoin(audioDir, TempFilename(now', uuidCount + 1)),
                            !.mp3Filename = AudioMp3Filename(now', uuidCount + 1)]
       IN  IF audioData \in {"undefined", "empty"}
           THEN /\ job' = [job EXCEPT ![j] = WsCatch(r0, "No audio data provided")]
                /\ UNCHANGED uuidCount
           ELSE /\ uuidCount' = uuidCount + 1
                /\ IF Decodes(audioData)
                   THEN job' = [job EXCEPT ![j] = Log([r1 EXCEPT !.pc = "saving"], "stage")]
                   ELSE job' = [job EXCEPT ![j] = WsCatch(r1, "Invalid audio data format")]
    /\ UNCHANGED <<fs, dl, listing, clients, sockets, frontend>>

\* fs.promises.writeFile(filePath, buffer) settles
WriteFileDone(j, result) ==
    /\ job[j].pc = "saving"
    /\ LET r == job[j]
       IN  CASE result = "ok" ->
                  /\ fs' = WriteFile(fs, r.sourcePath, StagingFile(j, TRUE, now))
                  /\ job' = [job EXCEPT ![j] = Log(Log([r EXCEPT !.pc = "converting"], "staged"), "convert")]
             [] OTHER ->
                  /\ fs' = fs
                  /\ job' = [job EXCEPT ![j] = WsCatch(r, "write failed")]
    /\ UNCHANGED <<now, uuidCount, dl, listing, clients, sockets, frontend>>

\* the frames of ws.on('message') that reach no handler: text that is not JSON,
\* JSON null, JSON without a type, JSON with a type the switch does not know
OtherFrames == {"notjson", "null", "notype", "unknown"}

\* the message of the error notification for such a frame: error.message of what
\* JSON.parse or data.type threw, or the text of the default branch
DispatchError(frame) ==
    CASE frame = "notjson" -> <<"SyntaxError: ", "Unexpected token">>
      [] frame = "null" -> <<"TypeError: ", "Cannot read properties of null">>
      [] OTHER -> <<"Unknown message type", "">>

\* a default branch that drops the frame
DispatchDrop(r, frame) == Finish(r, "REJECTED")

\* default branch and catch of ws.on('message'): one error notification on ws
DispatchReject(r, frame) ==
    Finish(Send(r, ErrorMsg(DispatchError(frame)[1], DispatchError(frame)[2])),
           "REJECTED")

\* ws.on('message') for a frame that is none of audio-chunk, translate, get-models
OnMessage(j, ws, frame) ==
    /\ job[j].pc = "idle"
    /\ \A i \in 1..(j - 1) : job[i].pc # "idle"
    /\ job' = [job EXCEPT ![j] = DispatchReject([job[j] EXCEPT !.mode = "ws", !.ws = ws, !.input = frame], frame)]
    /\ UNCHANGED <<now, uuidCount, fs, dl, listing, clients, sockets, frontend>>

\* ------------------------------------------------- one-shot: POST /transcribe
\* a handler without the req.file test: req.file.path throws inside the try
MissingFileThrows(r) ==
    Finish(Respond(r, Response(500, "", Undefined, "undefined",
                               <<"Transcription failed", "Cannot read properties of undefined">>)),
           "FAILED")

\* if (!req.file) return res.status(400).json({ error: 'No audio file provided' })
MissingFile(r) ==
    Finish(Respond(r, Response(400, "", Undefined, "undefined", <<"No audio file provided">>)),
           "REJECTED")

\* upload.single('audio'): fileFilter, diskStorage filename, file written to
\* uploads/; then the first lines of the handler when no file was stored
MulterUpload(j, hasFile, audioMime, originalExt, targetLanguage, random, ms) ==
    /\ job[j].pc = "idle"
    /\ now' = now + ms
    /\ \A i \in 1..(j - 1) : job[i].pc # "idle"
    /\ LET r0 == [job[j] EXCEPT !.mode = "http", !.targetLanguage = DefaultEn(targetLanguage),
                                !.requested = targetLanguage,
                                !.input = IF ~hasFile THEN "nofile" ELSE IF audioMime THEN "audio" ELSE "nonaudio"]
           path == PathJoin(uploadsDir, MulterFilename(now', random, originalExt))
       IN  CASE ~hasFile ->
                  \* if (!req.file) return res.status(400)
                  /\ job' = [job EXCEPT ![j] = MissingFile(r0)]
                  /\ fs' = fs
             [] hasFile /\ ~audioMime ->
                  \* cb(new Error('Only audio files are allowed')): the route handler
                  \* never runs, the framework's error handler answers
                  /\ job' = [job EXCEPT ![j] =
                        Finish(Respond(r0, Response(500, "", Undefined, "undefined",
                                                    <<"Only audio files are allowed">>)), "REJECTED")]
                  /\ fs' = fs
             [] OTHER ->
                  /\ fs' = WriteFile(fs, path, StagingFile(j, TRUE, now'))
                  /\ job' = [job EXCEPT ![j] =
                        Log(Log([r0 EXCEPT !.pc = "uploaded", !.sourcePath = path], "stage"), "staged")]
    /\ UNCHANGED <<uuidCount, dl, listing, clients, sockets, frontend>>

\* the handler body up to its await of convertToMp3
TranscribeUpload(j, ms) ==
    /\ job[j].pc = "uploaded"
    /\ now' = now + ms
    /\ uuidCount' = uuidCount + 1
    /\ job' = [job EXCEPT ![j] =
            Log([job[j] EXCEPT !.pc = "converting", !.timestamp = now', !.uniqueId = uuidCount + 1,
                               !.mp3Filename = UploadedMp3Filename(now', uuidCount + 1)], "convert")]
    /\ UNCHANGED <<fs, dl, listing, clients, sockets, frontend>>

\* ------------------------------------------------------------- convertToMp3
\* ffmpeg(inputPath)...save(outputPath): the engine opens its input and
\* creates the output file at its final path
FfmpegOpenOutput(j) ==
    /\ job[j].pc = "converting"
    /\ job[j].input # "notbase64"
    /\ existsSync(job[j].sourcePath)
    /\ fs' = WriteFile(fs, mp3Path(job[j]), CanonicalFile(j, FALSE, now))
    /\ job' = [job EXCEPT ![j].pc = "encoding"]
    /\ UNCHANGED <<now, uuidCount, dl, listing, clients, sockets, frontend>>

\* .on('error'): reject(err); whatever was written of the output stays
FfmpegError(j) ==
    /\ job[j].pc \in {"converting", "encoding"}
    /\ job' = [job EXCEPT ![j] = Throw(job[j], "ffmpeg error", fs)]
    /\ UNCHANGED <<now, uuidCount, fs, dl, listing, clients, sockets, frontend>>

\* a conversion that is started again after it has ended
AfterConvertAgain == "converting"

\* the state a job is in once convertToMp3 has resolved and transcribeAudio
\* has passed its existence check
AfterConvert == "transcribing"

\* a transcribeAudio without the existence check
TranscribeEntryUnchecked(r, f, statOk) ==
    IF ~statOk THEN Throw(r, "stat failed", f) ELSE [r EXCEPT !.pc = AfterConvert]

\* the synchronous head of transcribeAudio: existsSync first, then statSync,
\* then the await of the (mock) service
TranscribeEntry(r, f, statOk) ==
    IF ~(mp3Path(r) \in DOMAIN f) THEN Throw(r, "Audio file not found", f)
    ELSE IF ~statOk THEN Throw(r, "stat failed", f)
    ELSE [r EXCEPT !.pc = AfterConvert]

\* a handler that deletes the converted file when transcribeAudio throws
FfmpegEndDiscard(j, statOk) ==
    /\ job[j].pc = "encoding"
    /\ LET r == Log(Log(job[j], "converted"), "transcribe")
           f == IF existsSync(mp3Path(r))
                THEN WriteFile(fs, mp3Path(r), CanonicalFile(j, TRUE, fs[mp3Path(r)].created))
                ELSE fs
       IN  /\ fs' = IF statOk THEN f ELSE RemoveFile(f, mp3Path(r))
           /\ job' = [job EXCEPT ![j] = TranscribeEntry(r, f, statOk)]
    /\ UNCHANGED <<now, uuidCount, dl, listing, clients, sockets, frontend>>

\* .on('end'): resolve(outputPath); the caller goes on into transcribeAudio,
\* which runs up to its await of the simulated delay
FfmpegEnd(j, statOk) ==
    /\ job[j].pc = "encoding"
    /\ LET r == Log(Log(job[j], "converted"), "transcribe")
           f == IF existsSync(mp3Path(r))
                THEN WriteFile(fs, mp3Path(r), CanonicalFile(j, TRUE, fs[mp3Path(r)].created))
                ELSE fs
       IN  /\ fs' = f
           /\ job' = [job EXCEPT ![j] = TranscribeEntry(r, f, statOk)]
    /\ UNCHANGED <<now, uuidCount, dl, listing, clients, sockets, frontend>>

\* --------------------------------------------------- transcribe and translate
\* a result that names the staged file
ReportedSourceFile(r) == r.sourcePath[Len(r.sourcePath)]

\* the audioFile field of the result
ReportedAudioFile(r) == r.mp3Filename

\* a Step 3 that looks at the transcript only
UploadWantsNonBlank(targetLanguage, text) == NonBlank(text)

\* Step 3 of POST /transcribe: is the translation service called?
UploadWantsTranslation(targetLanguage, text) ==
    targetLanguage # "" /\ targetLanguage # "auto" /\ NonBlank(text)

\* an upload handler that runs its cleanup without having answered
UploadCleanupUnanswered(r, translation, f) == BeginCleanup(Log(r, "complete"), f)

\* res.json({ transcription, audioFile, translation, ... }), then the finally block
UploadRespond(r, translation, f) ==
    BeginCleanup(Log(Respond(r, Response(200, r.text, ReportedAudioFile(r), translation, <<>>)),
                     "complete"), f)

\* a streaming handler that calls handleTranslation without having sent the
\* transcription
TranslateUnsent(r, sent) == Log([r EXCEPT !.pc = "translating", !.calls = @ + 1], "translate")

\* the streaming handler after its transcription send: handleTranslation is called
TranslateAfterSend(r, sent) == Log([sent EXCEPT !.pc = "translating", !.calls = @ + 1], "translate")

\* transcribeAudio returns: the streaming handler sends the transcription and
\* calls handleTranslation; the upload handler decides whether to translate
TranscribeReturn(j) ==
    /\ job[j].pc = "transcribing"
    /\ LET r == Log([job[j] EXCEPT !.text = MockTranscription], "transcribed")
           sent == Send(r, Msg("transcription", r.text, ReportedAudioFile(r),
                                SessionOrUnique(r.sessionId, r.uniqueId), <<>>))
       IN  job' = [job EXCEPT ![j] =
             IF r.mode = "ws"
             THEN IF NonBlank(r.text)
                  THEN TranslateAfterSend(r, sent)
                  ELSE BeginCleanup(Log(sent, "complete"), fs)
             ELSE IF UploadWantsTranslation(r.targetLanguage, r.text)
                  THEN Log([r EXCEPT !.pc = "translating", !.calls = @ + 1], "translate")
                  ELSE UploadRespond(r, "null", fs)]
    /\ UNCHANGED <<now, uuidCount, fs, dl, listing, clients, sockets, frontend>>

TranslationResults == {"ok", "error", "nofield"}

\* a handleTranslation that lets the error reach the caller's catch
WsTranslationRethrow(r, f) == WsCatch(r, "translation error")

\* a handleTranslation that posts again when the call was rejected
WsTranslationRetry(r, f) == [r EXCEPT !.pc = "translating", !.calls = @ + 1]

\* catch (error) of handleTranslation: an error notification, nothing rethrown
WsTranslationCatch(r, f) ==
    BeginCleanup(Log(Send(r, ErrorMsg("Translation failed: ", "translation error")), "complete"), f)

\* a translation step without its own try/catch
UploadTranslationRethrow(r, f) == UploadCatch(r, "translation error", f)

\* catch (translationError) of POST /transcribe: console.warn only
UploadTranslationCatch(r, f) == UploadRespond(r, "null", f)

\* axios.post(`${OLLAMA_URL}/api/generate`) settles: fulfilled with a response
\* string, rejected, or fulfilled without a response field (.trim() then throws)
TranslateDone(j, result) ==
    /\ job[j].pc = "translating"
    /\ LET r == [job[j] EXCEPT !.translateResult = result]
           ok == Log(r, "translated")
       IN  job' = [job EXCEPT ![j] =
             IF r.mode = "ws"
             THEN IF result = "ok"
                  THEN BeginCleanup(Log(Send(ok,
                           Msg("translation", r.text, Undefined, Undefined, <<"translated", r.targetLanguage>>)),
                           "complete"), fs)
                  ELSE WsTranslationCatch(r, fs)
             ELSE IF result = "ok"
                  THEN UploadRespond(ok, "translated", fs)
                  ELSE UploadTranslationCatch(r, fs)]
    /\ UNCHANGED <<now, uuidCount, fs, dl, listing, clients, sockets, frontend>>

\* a cleanup whose catch passes the unlink error on to the handler's catch
AfterUnlinkRethrow(r) ==
    IF r.cleanupWarned
    THEN IF r.mode = "ws" THEN WsCatch(r, "unlink failed")
         ELSE AfterFinally([r EXCEPT !.pendingError = <<"unlink failed">>])
    ELSE IF r.mode = "ws" THEN Finish(r, "COMPLETED") ELSE AfterFinally(r)

\* after the cleanup block: its catch only warns, the handler ends as it would
\* have ended without the unlink
AfterUnlink(r) == IF r.mode = "ws" THEN Finish(r, "COMPLETED") ELSE AfterFinally(r)

\* fs.promises.unlink(path) settles; a rejection is logged and swallowed
UnlinkDone(j, result) ==
    /\ job[j].pc = "unlinking"
    /\ fs' = IF result = "ok" /\ existsSync(CleanupPath(job[j])) THEN RemoveFile(fs, CleanupPath(job[j])) ELSE fs
    /\ LET r == [job[j] EXCEPT !.cleanupWarned = (result # "ok" \/ ~existsSync(CleanupPath(job[j])))]
       IN  job' = [job EXCEPT ![j] = AfterUnlink(r)]
    /\ UNCHANGED <<now, uuidCount, dl, listing, clients, sockets, frontend>>

\* ---------------------------------------------------------------- the system
NextPipeline ==
    \/ \E j \in Jobs, data \in AudioChunkMessages, ms \in Elapsed : HandleAudioChunk(j, Untracked, data, ms)
    \/ \E j \in Jobs, frame \in OtherFrames : OnMessage(j, Untracked, frame)
    \/ \E j \in Jobs, result \in {"ok", "fail"} : WriteFileDone(j, result)
    \/ \E j \in Jobs, hasFile \in BOOLEAN, audioMime \in BOOLEAN, e \in OriginalExts,
          t \in UploadTargetLanguages, random \in 1..MaxRandom, ms \in Elapsed :
          MulterUpload(j, hasFile, audioMime, e, t, random, ms)
    \/ \E j \in Jobs, ms \in Elapsed : TranscribeUpload(j, ms)
    \/ \E j \in Jobs : FfmpegOpenOutput(j)
    \/ \E j \in Jobs : FfmpegError(j)
    \/ \E j \in Jobs, statOk \in BOOLEAN : FfmpegEnd(j, statOk)
    \/ \E j \in Jobs : TranscribeReturn(j)
    \/ \E j \in Jobs, result \in TranslationResults : TranslateDone(j, result)
    \/ \E j \in Jobs, result \in {"ok", "fail"} : UnlinkDone(j, result)

Next == NextPipeline

Spec == Init /\ [][Next]_vars

\* --------------------------------------------------- GET /audio/:filename
FileNames(dir) == {path[Len(path)] : path \in {q \in DOMAIN fs : InDir(q, dir)}}

RECURSIVE SeqsUpTo(_, _)
\* all sequences over chars of length at most n
SeqsUpTo(chars, n) ==
    IF n = 0 THEN {<<>>}
    ELSE LET shorter == SeqsUpTo(chars, n - 1)
         IN  shorter \cup {Append(s, c) : s \in shorter, c \in chars}

StemChars == {"a", ".", "/", "NUL"}
Suffixes == {<<>>, ExtMp3, ExtWav, <<".", "m", "p">>, ExtMp3 \o <<"/">>}
DotDotSlash == <<".", ".", "/">>

\* the :filename values a client may send: short arbitrary strings, the names of
\* the stored files, and guesses at files of the sibling uploads directory
RequestedNames ==
    {stem \o suffix : stem \in SeqsUpTo(StemChars, MaxStem), suffix \in Suffixes}
    \cup FileNames(audioDir)
    \cup {DotDotSlash \o uploadsDir[1] \o <<"/">> \o n : n \in FileNames(uploadsDir)}

\* the route handler of GET /audio/:filename, which is synchronous up to pipe()
DownloadRequest(filename) ==
    /\ dl.pc = "idle"
    /\ LET filePath == PathJoin(audioDir, filename)
       IN  dl' = IF ~MatchesAudioName(filename)
                 THEN [pc |-> "done", filename |-> filename, status |-> 400, touched |-> {}, served |-> NoPath]
                 ELSE IF ~existsSync(filePath)
                 THEN [pc |-> "done", filename |-> filename, status |-> 404, touched |-> {filePath}, served |-> NoPath]
                 ELSE [pc |-> "streaming", filename |-> filename, status |-> 200, touched |-> {filePath}, served |-> NoPath]
    /\ UNCHANGED <<now, uuidCount, fs, job, listing, clients, sockets, frontend>>

\* fs.createReadStream(filePath) opens the file and pipes it into the response;
\* an open that fails emits 'error' on a stream that has no listener
DownloadStream ==
    /\ dl.pc = "streaming"
    /\ LET filePath == PathJoin(audioDir, dl.filename)
       IN  dl' = IF existsSync(filePath)
                 THEN [dl EXCEPT !.pc = "done", !.served = filePath]
                 ELSE [dl EXCEPT !.pc = "crashed"]
    /\ UNCHANGED <<now, uuidCount, fs, job, listing, clients, sockets, frontend>>

DownloadJobs == {1}

NextDownload ==
    \/ \E filename \in RequestedNames : DownloadRequest(filename)
    \/ DownloadStream
    \/ \E j \in DownloadJobs, data \in AudioChunkMessages, ms \in Elapsed :
          HandleAudioChunk(j, Untracked, data, ms)
    \/ \E j \in DownloadJobs, result \in {"ok", "fail"} : WriteFileDone(j, result)
    \/ \E j \in DownloadJobs, hasFile \in BOOLEAN, audioMime \in BOOLEAN, e \in OriginalExts,
          t \in UploadTargetLanguages, random \in 1..MaxRandom, ms \in Elapsed :
          MulterUpload(j, hasFile, audioMime, e, t, random, ms)
    \/ \E j \in DownloadJobs, ms \in Elapsed : TranscribeUpload(j, ms)
    \/ \E j \in DownloadJobs : FfmpegOpenOutput(j)
    \/ \E j \in DownloadJobs : FfmpegError(j)
    \/ \E j \in DownloadJobs, statOk \in BOOLEAN : FfmpegEnd(j, statOk)
    \/ \E j \in DownloadJobs : TranscribeReturn(j)
    \/ \E j \in DownloadJobs, result \in TranslationResults : TranslateDone(j, result)
    \/ \E j \in DownloadJobs, result \in {"ok", "fail"} : UnlinkDone(j, result)

\* the pipeline of one job with a download request arriving at any time
SpecDownload == Init /\ [][NextDownload]_vars

\* ------------------------------------------------------- list: GET /audio
\* file.endsWith('.mp3') || file.endsWith('.wav')
Listed(name) == EndsWith(name, ExtMp3) \/ EndsWith(name, ExtWav)

\* stats.size, as far as the model tells sizes apart
Size(file) == IF file.complete THEN "whole" ELSE "partial"

\* { filename, size, created: stats.birthtime, modified: stats.mtime }
Entry(path) ==
    [filename |-> path[Len(path)], size |-> Size(fs[path]),
     created |-> fs[path].created, modified |-> fs[path].modified]

\* (a, b) => b.created - a.created
NewestFirst(a, b) == b.created - a.created

\* the results .sort(compare) can give for the entries: readdirSync returns
\* them in no promised order and the sort is stable, so entries that compare
\* equal may come out either way round
Sorted(entries) ==
    {s \in [1..Cardinality(entries) -> entries] :
        /\ \A e \in entries : \E k \in DOMAIN s : s[k] = e
        /\ \A k \in 1..(Len(s) - 1) : NewestFirst(s[k], s[k + 1]) <= 0}

\* the route handler of GET /audio, synchronous from readdirSync to res.json
ListRequest ==
    /\ listing.pc = "idle"
    /\ \E files \in Sorted({Entry(path) : path \in {q \in DOMAIN fs : InDir(q, audioDir) /\ Listed(q[Len(q)])}}) :
          listing' = [pc |-> "done", status |-> 200, files |-> files]
    /\ UNCHANGED <<now, uuidCount, fs, job, dl, clients, sockets, frontend>>

\* streaming jobs with sound audio and healthy services, and a list request
\* arriving at any time
NextList ==
    \/ ListRequest
    \/ \E j \in Jobs, data \in {m \in AudioChunkMessages : m.audioData = "base64"}, ms \in Elapsed :
          HandleAudioChunk(j, Untracked, data, ms)
    \/ \E j \in Jobs : WriteFileDone(j, "ok")
    \/ \E j \in Jobs : FfmpegOpenOutput(j)
    \/ \E j \in Jobs : FfmpegEnd(j, TRUE)
    \/ \E j \in Jobs : TranscribeReturn(j)
    \/ \E j \in Jobs : TranslateDone(j, "ok")
    \/ \E j \in Jobs : UnlinkDone(j, "ok")

SpecList == Init /\ [][NextList]_vars

\* ------------------------------------------- connections: wss.on('connection')
\* a client connects: the ws joins the registry and is greeted
Connect(c) ==
    /\ sockets[c].state = "none"
    /\ clients' = clients \cup {c}
    /\ sockets' = [sockets EXCEPT ![c] = [state |-> "open", received |-> Append(@.received, "connected")]]
    /\ UNCHANGED <<now, uuidCount, fs, job, dl, listing, frontend>>

\* a close handler that leaves the ws in the registry
CloseKeeps(c) ==
    /\ sockets[c].state = "open"
    /\ clients' = clients
    /\ sockets' = [sockets EXCEPT ![c].state = "closed"]
    /\ UNCHANGED <<now, uuidCount, fs, job, dl, listing, frontend>>

\* ws.on('close'): the ws leaves the registry; its jobs in flight run on
Close(c) ==
    /\ sockets[c].state = "open"
    /\ clients' = clients \ {c}
    /\ sockets' = [sockets EXCEPT ![c].state = "closed"]
    /\ UNCHANGED <<now, uuidCount, fs, job, dl, listing, frontend>>

\* the messages that arrive on the connections followed here
ConnMessages == {m \in AudioChunkMessages : m.audioData = "base64" /\ m.sessionId = Undefined}

\* the recordings the front end sends: the bytes of an ArrayBuffer
Recordings == {<<>>, <<26, 69>>}

\* the target languages the front end names: its parameter defaults to 'en'
FrontendLanguages == {"en", "es"}

\* a sendAudioChunk that puts the byte array under the field the server reads
sendAudioChunkAsAudioData(audioData, targetLanguage) ==
    [type |-> "audio-chunk", audioData |-> audioData, targetLanguage |-> targetLanguage]

\* WebSocketService.sendAudioChunk: { type: 'audio-chunk',
\* data: Array.from(new Uint8Array(audioData)), targetLanguage }
sendAudioChunk(audioData, targetLanguage) ==
    [type |-> "audio-chunk", data |-> audioData, targetLanguage |-> targetLanguage]

\* const { audioData, targetLanguage = 'en', sessionId } = data, for a message
\* of the front end: a field the message lacks is undefined, an array of
\* bytes is an object that is neither a string nor a Buffer
Destructure(message) ==
    [audioData |-> IF "audioData" \in DOMAIN message THEN "object" ELSE "undefined",
     targetLanguage |-> IF "targetLanguage" \in DOMAIN message THEN message.targetLanguage ELSE "undefined",
     sessionId |-> IF "sessionId" \in DOMAIN message THEN message.sessionId ELSE Undefined]

\* a message of the front end arrives on connection ws and is dispatched as
\* an audio-chunk
FrontendAudioChunk(j, ws, audioData, targetLanguage) ==
    HandleAudioChunk(j, ws, Destructure(sendAudioChunk(audioData, targetLanguage)), 0)

\* the audio-chunk messages of every kind of audioData
StreamMessages == {m \in AudioChunkMessages : m.sessionId = Undefined}

\* connections that open and close while streaming jobs arrive on the open ones
NextConn ==
    \/ \E c \in Conns : Connect(c)
    \/ \E c \in Conns : Close(c)
    \/ \E j \in Jobs, c \in {d \in Conns : sockets[d].state = "open"}, data \in StreamMessages :
          HandleAudioChunk(j, c, data, 0)
    \/ \E j \in Jobs, c \in {d \in Conns : sockets[d].state = "open"} : OnMessage(j, c, "unknown")
    \/ \E j \in Jobs, c \in {d \in Conns : sockets[d].state = "open"},
          audioData \in Recordings, targetLanguage \in FrontendLanguages :
          FrontendAudioChunk(j, c, audioData, targetLanguage)
    \/ \E j \in Jobs : WriteFileDone(j, "ok")
    \/ \E j \in Jobs : FfmpegOpenOutput(j)
    \/ \E j \in Jobs : FfmpegError(j)
    \/ \E j \in Jobs : FfmpegEnd(j, TRUE)
    \/ \E j \in Jobs : TranscribeReturn(j)
    \/ \E j \in Jobs, result \in {"ok", "error"} : TranslateDone(j, result)
    \/ \E j \in Jobs : UnlinkDone(j, "ok")

SpecConn == Init /\ [][NextConn]_vars

\* ------------------------------------------- files removed outside the server
\* the server never prunes the audio directory; whoever administers it removes
\* files by hand, at any time
ExternalRemove(path) ==
    /\ path \in DOMAIN fs /\ InDir(path, audioDir)
    /\ fs' = RemoveFile(fs, path)
    /\ UNCHANGED <<now, uuidCount, job, dl, listing, clients, sockets, frontend>>

\* jobs of both ingress modes with sound audio, while files of the audio
\* directory may disappear under them
NextRemoval ==
    \/ \E path \in DOMAIN fs : ExternalRemove(path)
    \/ \E j \in Jobs, data \in ConnMessages : HandleAudioChunk(j, Untracked, data, 0)
    \/ \E j \in Jobs : WriteFileDone(j, "ok")
    \/ \E j \in Jobs : MulterUpload(j, TRUE, TRUE, <<>>, "undefined", 1, 0)
    \/ \E j \in Jobs : TranscribeUpload(j, 0)
    \/ \E j \in Jobs : FfmpegOpenOutput(j)
    \/ \E j \in Jobs : FfmpegError(j)
    \/ \E j \in Jobs, statOk \in BOOLEAN : FfmpegEnd(j, statOk)
    \/ \E j \in Jobs : TranscribeReturn(j)
    \/ \E j \in Jobs : TranslateDone(j, "ok")
    \/ \E j \in Jobs : UnlinkDone(j, "ok")

SpecRemoval == Init /\ [][NextRemoval]_vars

\* ------------------------------------------------- the choice of translating
\* audio-chunk messages with sound audio and every kind of targetLanguage
TranslateMessages ==
    {[audioData |-> "base64", targetLanguage |-> t, sessionId |-> Undefined] :
        t \in {"undefined", "es", "", "auto"}}

\* jobs of both ingress modes that reach their transcript, under every target
\* language and every settlement of the translation call
NextTranslate ==
    \/ \E j \in Jobs, data \in TranslateMessages : HandleAudioChunk(j, Untracked, data, 0)
    \/ \E j \in Jobs : WriteFileDone(j, "ok")
    \/ \E j \in Jobs, t \in UploadTargetLanguages : MulterUpload(j, TRUE, TRUE, <<>>, t, 1, 0)
    \/ \E j \in Jobs : TranscribeUpload(j, 0)
    \/ \E j \in Jobs : FfmpegOpenOutput(j)
    \/ \E j \in Jobs : FfmpegEnd(j, TRUE)
    \/ \E j \in Jobs : TranscribeReturn(j)
    \/ \E j \in Jobs, result \in TranslationResults : TranslateDone(j, result)
    \/ \E j \in Jobs : UnlinkDone(j, "ok")

SpecTranslate == Init /\ [][NextTranslate]_vars

\* ------------------------------------------ front end: WebSocketService
\* setTimeout(() => this.connect(), 3000)
ReconnectDelay == 3000

\* the messages the front end is asked to send
ServiceMessages == {"audio-chunk", "translate"}

\* connect(): this.socket = new WebSocket(environment.wsUrl) and its handlers
connect(sv) ==
    [sv EXCEPT !.socket = sv.created + 1, !.created = sv.created + 1,
               !.readyState[sv.created + 1] = "connecting"]

\* socket.onopen
SocketOpen(s) ==
    /\ service.readyState[s] = "connecting"
    /\ service' = [service EXCEPT !.readyState[s] = "open", !.connected = TRUE]
    /\ UNCHANGED <<backend, recorder>>

\* socket.onerror: the browser reports a failure and goes on to close the socket
SocketError(s) ==
    /\ service.readyState[s] \in {"connecting", "open"}
    /\ service' = [service EXCEPT !.readyState[s] = "closing", !.connected = FALSE]
    /\ UNCHANGED <<backend, recorder>>

\* an onclose that reconnects only for the socket the service still holds
SocketCloseHeld(s) ==
    /\ service.readyState[s] \in {"connecting", "open", "closing"}
    /\ service' = [service EXCEPT !.readyState[s] = "closed", !.connected = FALSE,
                                  !.timers = IF service.socket = s THEN Append(@, ReconnectDelay) ELSE @]
    /\ UNCHANGED <<backend, recorder>>

\* socket.onclose, for a close by the server, the network or close():
\* connected$ goes to false and a connect() is scheduled
SocketClose(s) ==
    /\ service.readyState[s] \in {"connecting", "open", "closing"}
    /\ service' = [service EXCEPT !.readyState[s] = "closed", !.connected = FALSE,
                                  !.timers = Append(@, ReconnectDelay)]
    /\ UNCHANGED <<backend, recorder>>

\* a scheduled connect() runs
ReconnectTimer ==
    /\ service.timers # <<>>
    /\ service.created < MaxSockets
    /\ service' = connect([service EXCEPT !.timers = Tail(@)])
    /\ UNCHANGED <<backend, recorder>>

\* disconnect(): if (this.socket) { this.socket.close(); this.socket = null }
disconnect ==
    /\ service.socket # NoSocketYet
    /\ service' = [service EXCEPT
          !.readyState[service.socket] = IF @ \in {"connecting", "open"} THEN "closing" ELSE @,
          !.socket = NoSocketYet, !.detached = @ \cup {service.socket}]
    /\ UNCHANGED <<backend, recorder>>

\* sendMessage(message): sent on the socket if it is OPEN, otherwise logged
sendMessage(message) ==
    /\ Len(service.wire) + service.dropped < MaxSends
    /\ service' = IF service.socket # NoSocketYet /\ service.readyState[service.socket] = "open"
                  THEN [service EXCEPT !.wire = Append(@, <<service.socket, message>>)]
                  ELSE [service EXCEPT !.dropped = @ + 1]
    /\ UNCHANGED <<backend, recorder>>

NextService ==
    \/ \E s \in Sockets : SocketOpen(s)
    \/ \E s \in Sockets : SocketError(s)
    \/ \E s \in Sockets : SocketClose(s)
    \/ ReconnectTimer
    \/ disconnect
    \/ \E message \in ServiceMessages : sendMessage(message)

SpecService == Init /\ [][NextService]_vars

\* ------------------------- front end: AudioService and AudioRecorderComponent
\* the subscriber of recording$ in the recorder component: a timer is started
\* on true when there is none, stopped on false when there is one
Emit(rec, recording) ==
    [rec EXCEPT !.recording = recording,
                !.recordingTimer = IF recording /\ ~@ THEN TRUE
                                   ELSE IF ~recording /\ @ THEN FALSE ELSE @]

\* cleanup(): the tracks of this.audioStream are stopped, stream and recorder
\* are forgotten
cleanup(rec) == [rec EXCEPT !.audioStream = NoRecorder, !.mediaRecorder = NoRecorder]

\* mediaRecorder.onstart
OnStart(rec, r) == Emit([rec EXCEPT !.started = TRUE], TRUE)

\* an onstop set by stopRecording() that also emits false
OnStopEmitsToo(rec, r) ==
    IF rec.onstop[r] = "emit" THEN Emit(rec, FALSE)
    ELSE Emit([cleanup(rec) EXCEPT !.resolved = @ + 1], FALSE)

\* mediaRecorder.onstop: the handler startRecording() set emits false; the
\* handler stopRecording() put in its place builds the blob, cleans up and
\* resolves
OnStop(rec, r) ==
    IF rec.onstop[r] = "emit" THEN Emit(rec, FALSE)
    ELSE [cleanup(rec) EXCEPT !.resolved = @ + 1]

\* startRecording() up to its await of getUserMedia
startRecording ==
    /\ recorder.pc = "idle"
    /\ recorder.created < MaxRecorders
    /\ recorder' = [recorder EXCEPT !.pc = "asking"]
    /\ UNCHANGED <<backend, service>>

\* getUserMedia settles: with a stream, startRecording() creates the
\* MediaRecorder, sets its handlers and starts it; without, it throws
GetUserMedia(granted) ==
    /\ recorder.pc = "asking"
    /\ LET r == recorder.created + 1
       IN  recorder' = IF granted
                       THEN [recorder EXCEPT !.pc = "idle", !.created = r, !.audioStream = r,
                                             !.mediaRecorder = r, !.state[r] = "recording",
                                             !.onstop[r] = "emit", !.events[r] = <<"start">>]
                       ELSE [recorder EXCEPT !.pc = "idle"]
    /\ UNCHANGED <<backend, service>>

\* the browser fires the next event of MediaRecorder r
RecorderEvent(r) ==
    /\ recorder.events[r] # <<>>
    /\ LET rec == [recorder EXCEPT !.events[r] = Tail(@)]
       IN  recorder' = IF Head(recorder.events[r]) = "start" THEN OnStart(rec, r) ELSE OnStop(rec, r)
    /\ UNCHANGED <<backend, service>>

\* stopRecording() with a MediaRecorder: onstop is replaced, stop() is called;
\* stop() on a recorder that is no longer recording fires nothing
stopRecording ==
    /\ recorder.mediaRecorder # NoRecorder
    /\ LET r == recorder.mediaRecorder
       IN  recorder' = IF recorder.state[r] = "recording"
                       THEN [recorder EXCEPT !.onstop[r] = "resolve", !.state[r] = "inactive",
                                             !.events[r] = Append(@, "stop")]
                       ELSE [recorder EXCEPT !.onstop[r] = "resolve"]
    /\ UNCHANGED <<backend, service>>

\* the tracks of the stream MediaRecorder r records have ended (device
\* unplugged, permission withdrawn): the browser stops the recorder itself
TrackEnded(r) ==
    /\ recorder.state[r] = "recording"
    /\ recorder' = [recorder EXCEPT !.state[r] = "inactive", !.events[r] = Append(@, "stop"),
                                    !.ended = @ \cup {r}]
    /\ UNCHANGED <<backend, service>>

NextRecorder ==
    \/ startRecording
    \/ \E granted \in BOOLEAN : GetUserMedia(granted)
    \/ \E r \in Recorders : RecorderEvent(r)
    \/ stopRecording
    \/ \E r \in Recorders : TrackEnded(r)

SpecRecorder == Init /\ [][NextRecorder]_vars

\* ================================================================== claims
Terminal(j) == job[j].pc = "done" /\ job[j].outcome \in {"COMPLETED", "FAILED"}

\* the file job j staged is still at its staging path
StagedFilePresent(j) ==
    /\ job[j].sourcePath # NoPath
    /\ Exists(job[j].sourcePath)
    /\ fs[job[j].sourcePath].kind = "staging"
    /\ fs[job[j].sourcePath].job = j

HasMsg(j, type) == \E i \in 1..Len(job[j].out) : job[j].out[i].type = type
HasErrorMsg(j, prefix) ==
    \E i \in 1..Len(job[j].out) : job[j].out[i].type = "error" /\ job[j].out[i].message[1] = prefix
InTrace(j, event) == \E i \in 1..Len(job[j].trace) : job[j].trace[i] = event

\* C1: for every streaming job the staging file exists right after staging and
\* is absent once the job is terminal (COMPLETED or FAILED), whichever stage failed.
C1_StagingGoneAtTerminal ==
    \A j \in Jobs : job[j].mode = "ws" =>
        /\ job[j].pc = "converting" => StagedFilePresent(j)
        /\ Terminal(j) => ~StagedFilePresent(j)

\* C2 as stated: for every upload job with a staged file, the staged upload is
\* absent once the request has its terminal outcome (200 or 500).
C2_UploadGoneAtTerminal ==
    \A j \in Jobs : job[j].mode = "http" /\ Terminal(j) => ~StagedFilePresent(j)

\* C2 amended: for every upload job with a staged file, once the handler has
\* finished (200 or 500) the staged upload is absent unless the unlink call
\* itself was rejected, which the handler logs and swallows.
C2_UploadGoneUnlessUnlinkFailed ==
    \A j \in Jobs : job[j].mode = "http" /\ Terminal(j) =>
        (StagedFilePresent(j) => job[j].cleanupWarned)

\* an upload job ended with 500 after a failed conversion and its staged file is gone
C2_Witness ==
    \E j \in Jobs :
        /\ job[j].mode = "http" /\ Terminal(j) /\ job[j].response.status = 500
        /\ ~InTrace(j, "converted")
        /\ ~job[j].cleanupWarned
        /\ ~Exists(job[j].sourcePath)

Contains(s, sub) == \E i \in 1..(Len(s) - Len(sub) + 1) : SubSeq(s, i, i + Len(sub) - 1) = sub

\* ^[A-Za-z0-9_-]+\.(mp3|wav)$ as the specification writes it
SpecPattern(name) ==
    \E ext \in {ExtMp3, ExtWav} :
        /\ Len(name) > Len(ext)
        /\ SubSeq(name, Len(name) - Len(ext) + 1, Len(name)) = ext
        /\ \A i \in 1..(Len(name) - Len(ext)) : name[i] \in WordChars

\* C3: a download whose filename does not match ^[A-Za-z0-9_-]+\.(mp3|wav)$ (in
\* particular one containing "..", "/" or a null byte) is rejected before any
\* file system access, and no path outside the audio directory is read or served.
C3_RejectBeforeAccess ==
    /\ dl.pc # "idle" /\ ~SpecPattern(dl.filename) =>
            dl.status = 400 /\ dl.touched = {} /\ dl.served = NoPath
    /\ dl.pc # "idle" /\ (Contains(dl.filename, <<".", ".">>) \/ Contains(dl.filename, <<"/">>)
                          \/ Contains(dl.filename, <<"NUL">>)) => dl.status = 400
    /\ \A path \in dl.touched : InDir(path, audioDir)
    /\ dl.served # NoPath => InDir(dl.served, audioDir)

\* a request for ../uploads/<an existing staged upload> was answered 400
C3_Witness ==
    /\ dl.pc = "done" /\ dl.status = 400 /\ dl.touched = {}
    /\ \E n \in FileNames(uploadsDir) : dl.filename = DotDotSlash \o uploadsDir[1] \o <<"/">> \o n

\* C4: in every reachable state the persistent audio directory holds only
\* canonical artifacts; no staging artifact is ever placed there.
C4_OnlyCanonicalInAudioDir ==
    \A path \in DOMAIN fs : InDir(path, audioDir) => fs[path].kind = "canonical"

\* C5: an upload job whose transcription succeeded and whose translation call
\* failed or returned no completion answers 200 with the transcript, the
\* canonical filename and a null translation, and ends COMPLETED.
C5_UploadTranslationNonFatal ==
    \A j \in Jobs : job[j].mode = "http" /\ job[j].translateResult \in {"error", "nofield"} =>
        /\ job[j].pc \in {"unlinking", "done"}
        /\ job[j].response.status = 200
        /\ job[j].response.transcription = MockTranscription
        /\ job[j].response.audioFile = job[j].mp3Filename
        /\ job[j].response.translation = "null"
        /\ job[j].pc = "done" => job[j].outcome = "COMPLETED"

\* an upload job finished COMPLETED although the translation service answered
\* without a response field
C5_Witness ==
    \E j \in Jobs : /\ job[j].mode = "http" /\ job[j].translateResult = "nofield"
                    /\ job[j].pc = "done" /\ job[j].outcome = "COMPLETED"

\* C6: a streaming job whose transcription succeeded and whose translation call
\* failed still delivered its transcription notification, sends no
\* 'Transcription failed' error, and runs the release of its staging file
\* (the file is gone at the end unless unlink itself was rejected).
C6_StreamTranslationNonFatal ==
    \A j \in Jobs : job[j].mode = "ws" /\ job[j].translateResult \in {"error", "nofield"} =>
        /\ HasMsg(j, "transcription")
        /\ ~HasErrorMsg(j, "Transcription failed: ")
        /\ HasErrorMsg(j, "Translation failed: ")
        /\ job[j].pc \in {"unlinking", "done"}
        /\ job[j].pc = "done" =>
              /\ job[j].outcome = "COMPLETED"
              /\ StagedFilePresent(j) => job[j].cleanupWarned

\* a streaming job ended COMPLETED after a rejected translation call, its staging
\* file deleted
C6_Witness ==
    \E j \in Jobs : /\ job[j].mode = "ws" /\ job[j].translateResult = "error"
                    /\ job[j].pc = "done" /\ ~Exists(job[j].sourcePath)

CanonicalArtifacts ==
    {path \in DOMAIN fs : InDir(path, audioDir) /\ fs[path].kind = "canonical" /\ fs[path].complete}

\* C7: once a canonical artifact has been written to the persistent directory,
\* no step of any job deletes or rewrites it.
C7_CanonicalNeverTouched ==
    [][\A path \in CanonicalArtifacts : path \in DOMAIN fs' /\ fs'[path] = fs[path]]_vars

\* two finished jobs, the staging file of one deleted by its cleanup, and both
\* canonical artifacts in place
C7_Witness ==
    /\ \A j \in Jobs : job[j].pc = "done" /\ job[j].outcome = "COMPLETED" /\ mp3Path(job[j]) \in CanonicalArtifacts
    /\ \E j \in Jobs : ~job[j].cleanupWarned /\ ~Exists(job[j].sourcePath)

\* the audioFile a job reported to its caller, <<>> when it reported none
AudioFileReported(j) ==
    IF job[j].mode = "http"
    THEN IF job[j].response.status = 200 THEN job[j].response.audioFile ELSE <<>>
    ELSE IF HasMsg(j, "transcription")
         THEN job[j].out[CHOOSE i \in 1..Len(job[j].out) : job[j].out[i].type = "transcription"].audioFile
         ELSE <<>>

\* C8: every job that reaches COMPLETED has exactly one canonical artifact in the
\* persistent directory, and it is the file its result names as audioFile.
C8_OneArtifactPerCompletedJob ==
    \A j \in Jobs : job[j].pc = "done" /\ job[j].outcome = "COMPLETED" =>
        LET mine == {path \in DOMAIN fs : InDir(path, audioDir) /\ fs[path].kind = "canonical" /\ fs[path].job = j}
        IN  /\ Cardinality(mine) = 1
            /\ mine = {PathJoin(audioDir, AudioFileReported(j))}
            /\ mine \subseteq CanonicalArtifacts

\* a streaming job and an upload job both COMPLETED
C8_Witness ==
    /\ \E j \in Jobs : job[j].mode = "ws" /\ job[j].pc = "done" /\ job[j].outcome = "COMPLETED"
    /\ \E j \in Jobs : job[j].mode = "http" /\ job[j].pc = "done" /\ job[j].outcome = "COMPLETED"

StageEvents == <<"stage", "staged", "convert", "converted", "transcribe", "transcribed",
                 "translate", "translated", "complete">>
EventRank(event) == CHOOSE k \in 1..Len(StageEvents) : StageEvents[k] = event

\* the events that may come directly before the start of a stage
Before(event) ==
    CASE event = "convert" -> {"staged"}
      [] event = "transcribe" -> {"converted"}
      [] event = "translate" -> {"transcribed"}
      [] event = "complete" -> {"transcribed", "translated", "translate"}
      [] event = "staged" -> {"stage"}
      [] event = "converted" -> {"convert"}
      [] event = "transcribed" -> {"transcribe"}
      [] event = "translated" -> {"translate"}
      [] OTHER -> {}

\* C9: within one job the stages run in the order stage, convert, transcribe,
\* (translate), complete; a stage starts only after the previous one has
\* completed, the job never moves backward and no stage runs twice.
C9_StagesInOrder ==
    \A j \in Jobs :
        LET t == job[j].trace
        IN  /\ \A i \in 1..Len(t) : \A k \in 1..Len(t) : i < k => EventRank(t[i]) < EventRank(t[k])
            /\ \A i \in 1..Len(t) : IF i = 1 THEN t[i] = "stage" ELSE t[i - 1] \in Before(t[i])
            /\ job[j].pc = "transcribing" => t[Len(t)] = "transcribe" /\ mp3Path(job[j]) \in CanonicalArtifacts
            /\ job[j].pc = "translating" => t[Len(t)] = "translate" /\ job[j].text # ""

\* a job ran all five stages
C9_Witness ==
    \E j \in Jobs : job[j].pc = "done" /\ job[j].trace = StageEvents

\* C10: any two distinct jobs, streaming or upload in any mix and even when
\* started in the same millisecond, get distinct canonical filenames.
C10_DistinctCanonicalNames ==
    \A i, j \in Jobs : i # j /\ job[i].mp3Filename # <<>> /\ job[j].mp3Filename # <<>> =>
        job[i].mp3Filename # job[j].mp3Filename

\* two streaming jobs named in the same millisecond
C10_Witness ==
    \E i, j \in Jobs : /\ i # j /\ job[i].mode = "ws" /\ job[j].mode = "ws"
                       /\ job[i].mp3Filename # <<>> /\ job[j].mp3Filename # <<>>
                       /\ job[i].timestamp = job[j].timestamp

\* --------------------------------------------------------------- C11 .. C20
Alive(j) == job[j].pc \notin {"idle", "done"}

\* C11: in both ingress modes no two jobs alive at the same time hold the same
\* staging filename, so no job's staging write or cleanup reaches another
\* job's staging file
C11_StagingNamesExclusive ==
    \A i, j \in Jobs :
        (i # j /\ Alive(i) /\ Alive(j) /\ job[i].sourcePath # NoPath)
            => job[i].sourcePath # job[j].sourcePath

\* the session tag of job j: the caller's sessionId, or the generated job id
SessionTag(j) ==
    IF job[j].sessionId = Undefined THEN UuidChars(job[j].uniqueId) ELSE job[j].sessionId

\* C12: the transcription notification and the translation notification of a
\* streaming job both carry the job's sessionId
C12_NotificationsTagged ==
    \A j \in Jobs : \A k \in 1..Len(job[j].out) :
        job[j].out[k].type \in {"transcription", "translation"}
            => job[j].out[k].sessionId = SessionTag(j)

\* the messages a stage can fail with, by the last stage event of the job
StageThrows(trace) ==
    IF trace = <<>> THEN {"No audio data provided", "Invalid audio data format"}
    ELSE CASE trace[Len(trace)] = "stage" -> {"write failed"}
           [] trace[Len(trace)] = "convert" -> {"ffmpeg error"}
           [] trace[Len(trace)] = "transcribe" -> {"Audio file not found", "stat failed"}
           [] OTHER -> {}

\* the failure messages job j has been sent (streaming) or is about to be
\* answered with (one-shot)
FailureDetails(j) ==
    IF job[j].mode = "ws"
    THEN {job[j].out[k].message[2] : k \in {i \in 1..Len(job[j].out) :
                job[j].out[i].type = "error" /\ job[j].out[i].message[1] = "Transcription failed: "}}
    ELSE {job[j].pendingError[k] : k \in 1..Len(job[j].pendingError)}

C14_DownloadOutcomes ==
    [][/\ (dl.pc = "idle" /\ dl'.pc # "idle") =>
             CASE ~SpecPattern(dl'.filename) ->
                      dl'.pc = "done" /\ dl'.status = 400
               [] SpecPattern(dl'.filename) /\ PathJoin(audioDir, dl'.filename) \notin DOMAIN fs ->
                      dl'.pc = "done" /\ dl'.status = 404
               [] OTHER ->
                      dl'.pc = "streaming" /\ dl'.status = 200
       /\ (dl.pc = "streaming" /\ dl'.pc # "streaming") =>
             /\ dl'.pc = "done"
             /\ dl'.served = PathJoin(audioDir, dl.filename)
             /\ dl'.served \in DOMAIN fs]_vars

\* the files of job j in the persistent audio directory
ArtifactsOf(j) == {path \in DOMAIN fs : InDir(path, audioDir) /\ fs[path].job = j}

\* C15: an upload whose audio part has a non-audio content type is answered
\* with a client error (4xx); no pipeline stage runs for it and it leaves no
\* artifact in the persistent directory
C15_NonAudioIsClientError ==
    \A j \in Jobs : job[j].input = "nonaudio" =>
        /\ job[j].pc = "done"
        /\ job[j].response.status \in 400..499
        /\ job[j].trace = <<>>
        /\ ArtifactsOf(j) = {}

C17_UnknownMessageOneError ==
    \A j \in Jobs : job[j].input \in {"notjson", "null", "notype", "unknown"} =>
        /\ job[j].pc = "done"
        /\ Len(job[j].out) = 1
        /\ job[j].out[1].type = "error"
        /\ job[j].out[1].message # <<>>
        /\ job[j].response = NoResponse
        /\ job[j].trace = <<>> /\ job[j].sourcePath = NoPath

\* text that is not JSON and a message of unknown type were each answered
C17_Witness ==
    /\ \E j \in Jobs : job[j].input = "notjson" /\ Len(job[j].out) = 1
    /\ \E j \in Jobs : job[j].input = "unknown" /\ Len(job[j].out) = 1
                        /\ job[j].out[1].message[1] = "Unknown message type"

\* C18: the list answers with exactly the stored files that carry the
\* canonical extension mp3, each as filename, size, created and modified, the
\* newest creation time first
C18_ListExactlyMp3 ==
    [][(listing.pc = "idle" /\ listing'.pc = "done") =>
          LET files == listing'.files
              mp3s == {path \in DOMAIN fs : InDir(path, audioDir) /\ EndsWith(path[Len(path)], ExtMp3)}
          IN  /\ listing'.status = 200
              /\ Len(files) = Cardinality(mp3s)
              /\ {files[k] : k \in DOMAIN files} =
                    {[filename |-> path[Len(path)], size |-> Size(fs[path]),
                      created |-> fs[path].created, modified |-> fs[path].modified] : path \in mp3s}
              /\ \A k \in 1..(Len(files) - 1) : files[k].created >= files[k + 1].created]_vars

\* C19: jobs are independent: whatever the other jobs do or fail to do, and in
\* whatever order the stages interleave, a job that has staged its input and
\* waits for its conversion still finds that input, its own, in place, so its
\* outcome is the one it would have had alone
C19_JobsIndependent ==
    \A j \in Jobs : job[j].pc \in {"uploaded", "converting"} =>
        /\ Exists(job[j].sourcePath)
        /\ fs[job[j].sourcePath].job = j

\* job j has ended FAILED in one of the stages staging, conversion, transcription
FailedInStage(j) ==
    /\ job[j].pc = "done" /\ job[j].outcome = "FAILED"
    /\ job[j].trace # <<>>
    /\ job[j].trace[Len(job[j].trace)] \in {"stage", "convert", "transcribe"}

\* the fixed part of the failure message job j was answered with: the text in
\* front of error.message (streaming), the error field (one-shot)
FailureLabel(j) ==
    IF job[j].mode = "ws" THEN job[j].out[Len(job[j].out)].message[1] ELSE job[j].response.error[1]

C21_CleanupKeepsOutcome ==
    [][\A j \in Jobs :
          /\ (job[j].pc = "unlinking" /\ job'[j].pc # "unlinking") =>
                /\ job'[j].pc = "done"
                /\ job'[j].out = job[j].out
                /\ job[j].pendingError = <<>> =>
                      (job'[j].outcome = "COMPLETED" /\ job'[j].response = job[j].response)
                /\ job[j].pendingError # <<>> =>
                      /\ job'[j].outcome = "FAILED"
                      /\ job'[j].response.status = 500
                      /\ job'[j].response.error = <<"Transcription failed">> \o job[j].pendingError
          /\ (job'[j].pc = "done" /\ \E k \in 1..Len(job'[j].trace) : job'[j].trace[k] = "complete") =>
                /\ job'[j].outcome = "COMPLETED"
                /\ ~\E k \in 1..Len(job'[j].out) :
                        job'[j].out[k].type = "error" /\ job'[j].out[k].message[1] = "Transcription failed: "
                /\ job'[j].mode = "http" => job'[j].response.status = 200]_vars

\* a streaming job and an upload job both ended as successes although the
\* unlink of each one's staging file was rejected
C21_Witness ==
    /\ \E j \in Jobs : /\ job[j].mode = "ws" /\ job[j].pc = "done" /\ job[j].cleanupWarned
                        /\ job[j].outcome = "COMPLETED" /\ Exists(job[j].sourcePath)
    /\ \E j \in Jobs : /\ job[j].mode = "http" /\ job[j].pc = "done" /\ job[j].cleanupWarned
                        /\ job[j].response.status = 200 /\ Exists(job[j].sourcePath)

\* C22: the notifications of a streaming job go to the connection the job's
\* message arrived on and to no other, whatever the registry holds
C22_OnlyToSubmitter ==
    \A j \in Jobs : job[j].mode = "ws" =>
        /\ job[j].sentTo \subseteq {job[j].ws}
        /\ job[j].out # <<>> => job[j].sentTo = {job[j].ws}

\* a job sent its transcription and translation to its own connection while
\* another connection was open and registered
C22_Witness ==
    \E j \in Jobs, c \in Conns :
        /\ job[j].mode = "ws" /\ job[j].ws # c /\ job[j].ws \in Conns
        /\ c \in clients /\ sockets[c].state = "open"
        /\ HasMsg(j, "transcription") /\ HasMsg(j, "translation")
        /\ job[j].sentTo = {job[j].ws}

\* the position of the first event of that name in a trace, 0 when absent
FirstAt(trace, event) ==
    IF \E k \in 1..Len(trace) : trace[k] = event
    THEN CHOOSE k \in 1..Len(trace) : trace[k] = event /\ \A i \in 1..(k - 1) : trace[i] # event
    ELSE 0

\* C23: transcript and translation are never populated out of order: the
\* translation is called only after transcribeAudio has returned a transcript,
\* and a streaming job's transcription notification precedes its translation
\* notification
C23_TranscriptBeforeTranslation ==
    \A j \in Jobs :
        /\ (job[j].pc = "translating" \/ job[j].translateResult # "" \/ InTrace(j, "translate")) =>
              /\ NonBlank(job[j].text)
              /\ FirstAt(job[j].trace, "transcribed") > 0
              /\ FirstAt(job[j].trace, "transcribed") < FirstAt(job[j].trace, "translate")
        /\ \A k \in 1..Len(job[j].out) :
              (job[j].out[k].type = "translation" \/
               (job[j].out[k].type = "error" /\ job[j].out[k].message[1] = "Translation failed: ")) =>
                  \E i \in 1..(k - 1) : job[j].out[i].type = "transcription"
        /\ job[j].response.translation = "translated" =>
              (job[j].response.transcription = job[j].text /\ NonBlank(job[j].text))

\* a streaming job has sent its transcription and then its translation, and
\* an upload job has answered with transcript and translation
C23_Witness ==
    /\ \E j \in Jobs : /\ job[j].mode = "ws" /\ Len(job[j].out) = 2
                        /\ job[j].out[1].type = "transcription" /\ job[j].out[2].type = "translation"
    /\ \E j \in Jobs : /\ job[j].mode = "http" /\ job[j].response.status = 200
                        /\ job[j].response.translation = "translated"

\* C24: on the success path of both ingress modes the result is emitted
\* before the staging file is released, and the release deletes the staging
\* file only: the canonical artifact stays
C24_ResultThenRelease ==
    [][\A j \in Jobs :
          (job[j].pc = "unlinking" /\ job'[j].pc # "unlinking" /\ job[j].pendingError = <<>>) =>
              /\ IF job[j].mode = "ws" THEN HasMsg(j, "transcription")
                  ELSE job[j].response.status = 200
              /\ job'[j].out = job[j].out /\ job'[j].response = job[j].response
              /\ (DOMAIN fs) \ (DOMAIN fs') \subseteq {job[j].sourcePath}
              /\ job[j].sourcePath # mp3Path(job[j])
              /\ mp3Path(job[j]) \in DOMAIN fs' /\ fs'[mp3Path(job[j])] = fs[mp3Path(job[j])]]_vars

\* a streaming job and an upload job have both emitted their result and then
\* deleted their staging file, the canonical artifact of each still stored
C24_Witness ==
    /\ \E j \in Jobs : /\ job[j].mode = "ws" /\ job[j].pc = "done" /\ HasMsg(j, "transcription")
                        /\ ~job[j].cleanupWarned /\ ~Exists(job[j].sourcePath) /\ Exists(mp3Path(job[j]))
    /\ \E j \in Jobs : /\ job[j].mode = "http" /\ job[j].pc = "done" /\ job[j].response.status = 200
                        /\ ~job[j].cleanupWarned /\ ~Exists(job[j].sourcePath) /\ Exists(mp3Path(job[j]))

\* C25: the translation service is called at most once per job: a call that
\* failed is not made again
C25_OneTranslationCall ==
    \A j \in Jobs :
        /\ job[j].calls <= 1
        /\ job[j].translateResult # "" => job[j].calls = 1
        /\ (job[j].translateResult \in {"error", "nofield"}) => job[j].pc \in {"unlinking", "done"}

\* a streaming job and an upload job have each ended after their one
\* translation call was rejected
C25_Witness ==
    /\ \E j \in Jobs : /\ job[j].mode = "ws" /\ job[j].pc = "done"
                        /\ job[j].translateResult = "error" /\ job[j].calls = 1
    /\ \E j \in Jobs : /\ job[j].mode = "http" /\ job[j].pc = "done"
                        /\ job[j].translateResult = "error" /\ job[j].calls = 1

\* C26: staging a streaming payload fails, with no file written and the job
\* FAILED, when the text payload cannot be decoded into bytes, and when the
\* write itself fails
C26_UndecodableNotStaged ==
    \A j \in Jobs :
        (job[j].mode = "ws" /\ (job[j].input = "notbase64" \/ FailureDetails(j) = {"write failed"})) =>
            /\ ~InTrace(j, "staged")
            /\ ~Exists(job[j].sourcePath)
            /\ job[j].pc = "done" => job[j].outcome = "FAILED"

\* C27: transcribeAudio tests that the canonical artifact exists before
\* anything else and fails the job when it does not: no job whose artifact
\* was missing at that point goes on to transcription or gets a transcript
C27_MissingArtifactFails ==
    [][\A j \in Jobs :
          (/\ job[j].pc = "encoding"
           /\ Len(job'[j].trace) > Len(job[j].trace)
           /\ job'[j].trace[Len(job'[j].trace)] = "transcribe") =>
              /\ mp3Path(job[j]) \notin DOMAIN fs =>
                    /\ job'[j].pc \notin {"transcribing", "translating"}
                    /\ job'[j].text = ""
                    /\ IF job[j].mode = "ws"
                       THEN /\ Len(job'[j].out) = Len(job[j].out) + 1
                            /\ job'[j].out[Len(job'[j].out)].message =
                                  <<"Transcription failed: ", "Audio file not found">>
                       ELSE job'[j].pendingError = <<"Audio file not found">>
              /\ job'[j].pc = "transcribing" => mp3Path(job[j]) \in DOMAIN fs]_vars

\* a streaming job ended FAILED with 'Audio file not found' and without a
\* transcript, its converted file having been removed during the conversion
C27_Witness ==
    \E j \in Jobs : /\ job[j].mode = "ws" /\ job[j].pc = "done" /\ job[j].outcome = "FAILED"
                    /\ FailureDetails(j) = {"Audio file not found"}
                    /\ job[j].text = "" /\ ~HasMsg(j, "transcription")

\* what kind of notification msg is: its type, or for an error the fixed text
\* its message starts with
KindOf(msg) == IF msg.type = "error" THEN msg.message[1] ELSE msg.type

\* the kinds of the notifications job j has been sent, in order
Pattern(j) == [k \in 1..Len(job[j].out) |-> KindOf(job[j].out[k])]

\* C28: an audio-chunk message is answered with exactly one of transcription
\* and 'Transcription failed' error, followed, only after a transcription with
\* non-blank text, by exactly one of translation and 'Translation failed'
\* error, and with nothing else
C28_NotificationPattern ==
    \A j \in Jobs :
        job[j].input \in {"undefined", "empty", "object", "base64", "notbase64"} =>
            /\ Pattern(j) \in {<<>>, <<"Transcription failed: ">>, <<"transcription">>,
                                <<"transcription", "translation">>,
                                <<"transcription", "Translation failed: ">>}
            /\ Len(job[j].out) = 2 => NonBlank(job[j].text)
            /\ job[j].pc \in {"unlinking", "done"} =>
                  /\ Pattern(j) # <<>>
                  /\ Pattern(j) = <<"transcription">> => ~NonBlank(job[j].text)

\* one streaming job was answered with a 'Transcription failed' error alone,
\* another with a transcription and then a 'Translation failed' error
C28_Witness ==
    /\ \E j \in Jobs : job[j].pc = "done" /\ job[j].input = "base64"
                        /\ Pattern(j) = <<"Transcription failed: ">>
    /\ \E j \in Jobs : job[j].pc = "done" /\ job[j].input = "base64"
                        /\ Pattern(j) = <<"transcription", "Translation failed: ">>

\* the upload requests the /transcribe handler itself runs for: those the
\* upload middleware passed on
Handled(j) == job[j].mode = "http" /\ job[j].input \in {"nofile", "audio"}

\* C29: a request handled by POST /transcribe never has two responses and has
\* exactly one, a 400, a 200 or a 500, when the handler has ended; a 200 is
\* never followed by an error response, and the 500 of a failed conversion
\* or transcription is written only after the cleanup block has run
C29_OneResponse ==
    [][\A j \in Jobs :
          Handled(j)' =>
              /\ job'[j].responses <= 1
              /\ job'[j].pc = "done" =>
                    (job'[j].responses = 1 /\ job'[j].response.status \in {400, 200, 500})
              /\ job[j].response.status = 200 => job'[j].response = job[j].response
              /\ (job'[j].responses > job[j].responses /\ job'[j].response.status = 500) =>
                    /\ job'[j].pendingError # <<>>
                    /\ job[j].pc = "unlinking" \/ ~existsSync(job'[j].sourcePath)]_vars

\* two uploads have ended with their one response: one with a 200, the other
\* with a 500 written after its staging file was deleted
C29_Witness ==
    /\ \E j \in Jobs : /\ job[j].pc = "done" /\ job[j].input = "audio" /\ job[j].responses = 1
                        /\ job[j].response.status = 200
    /\ \E j \in Jobs : /\ job[j].pc = "done" /\ job[j].input = "audio" /\ job[j].responses = 1
                        /\ job[j].response.status = 500 /\ ~job[j].cleanupWarned
                        /\ ~Exists(job[j].sourcePath)

\* C30: while a download that passed the pattern and the existence check has
\* not yet opened its stream, the file it named is still stored: no job
\* deletes a file of the audio directory in between
C30_CheckedFileStays ==
    dl.pc = "streaming" => existsSync(PathJoin(audioDir, dl.filename))

\* ---------------------------------------------------------------- C31 .. C37
\* job j has ended FAILED after its conversion had succeeded
FailedAfterConversion(j) ==
    job[j].pc = "done" /\ job[j].outcome = "FAILED" /\ InTrace(j, "converted")

\* some notification or the response of job j names file name
Names(j, name) ==
    \/ \E k \in 1..Len(job[j].out) : job[j].out[k].audioFile = name
    \/ job[j].response.audioFile = name

\* C31: a job whose conversion succeeded and whose transcription then failed
\* leaves its canonical artifact in the audio directory, where the listing
\* shows it and a download finds it, while the job is FAILED and neither a
\* notification nor the response names that file
C31_OrphanArtifactStays ==
    \A j \in Jobs :
        FailedAfterConversion(j) =>
            /\ existsSync(mp3Path(job[j]))
            /\ fs[mp3Path(job[j])].kind = "canonical" /\ fs[mp3Path(job[j])].complete
            /\ Listed(job[j].mp3Filename)
            /\ MatchesAudioName(job[j].mp3Filename)
            /\ ~Names(j, job[j].mp3Filename)

\* a streaming job and an upload job have both failed in transcribeAudio and
\* left their artifacts behind
C31_Witness ==
    /\ \E j \in Jobs : job[j].mode = "ws" /\ FailedAfterConversion(j) /\ Exists(mp3Path(job[j]))
    /\ \E j \in Jobs : job[j].mode = "http" /\ FailedAfterConversion(j) /\ Exists(mp3Path(job[j]))

\* audioData that is missing, empty, or neither a string nor a byte buffer
Unusable == {"undefined", "empty", "object"}

\* the files job j has written, in any directory
WrittenBy(j) == {path \in DOMAIN fs : fs[path].job = j}

\* C32: an audio-chunk message whose audioData is missing, empty, or neither
\* a string nor a byte buffer is answered with exactly one error notification;
\* its job writes no file and runs no conversion, transcription or translation
C32_UnusableAudioRejected ==
    \A j \in Jobs :
        (job[j].mode = "ws" /\ job[j].input \in Unusable) =>
            /\ job[j].pc = "done" /\ job[j].outcome = "FAILED"
            /\ Len(job[j].out) = 1 /\ job[j].out[1].type = "error"
            /\ job[j].out[1].message =
                  <<"Transcription failed: ",
                    IF job[j].input = "object" THEN "Invalid audio data format"
                                               ELSE "No audio data provided">>
            /\ job[j].sentTo = {job[j].ws}
            /\ WrittenBy(j) = {}
            /\ job[j].trace = <<>>
            /\ job[j].calls = 0 /\ job[j].text = ""

\* a message without audioData and one whose audioData is a JSON object have
\* both been answered with their one error, each on its own open connection
C32_Witness ==
    \E i, j \in Jobs :
        /\ job[i].input \in {"undefined", "empty"} /\ Len(job[i].out) = 1
        /\ job[j].input = "object" /\ Len(job[j].out) = 1
        /\ job[i].ws \in Conns /\ job[j].ws \in Conns /\ job[i].ws # job[j].ws

\* transcribeAudio has returned the transcript of job j
Transcribed(j) == InTrace(j, "transcribed")

\* C33: the translation service is called only for a non-blank transcript;
\* a streaming job calls it for every non-blank transcript, with the target
\* language of the message or 'en' when the message has none; an upload
\* calls it unless its target language is empty or 'auto', and its response
\* then carries a null translation
C33_TranslationChoice ==
    \A j \in Jobs :
        /\ job[j].calls > 0 => (Transcribed(j) /\ NonBlank(job[j].text))
        /\ job[j].mode # "none" =>
              job[j].targetLanguage = (IF job[j].requested = "undefined" THEN "en" ELSE job[j].requested)
        /\ (job[j].mode = "ws" /\ Transcribed(j)) => (job[j].calls = 1 <=> NonBlank(job[j].text))
        /\ (job[j].mode = "http" /\ Transcribed(j)) =>
              /\ job[j].calls = 1 <=>
                    (NonBlank(job[j].text) /\ job[j].targetLanguage \notin {"", "auto"})
              /\ (job[j].calls = 0 /\ job[j].pc = "done") =>
                    (job[j].response.status = 200 /\ job[j].response.translation = "null")

\* a streaming job asked for 'auto' has called the translation service, an
\* upload job asked for 'auto' has answered without calling it
C33_Witness ==
    /\ \E j \in Jobs : /\ job[j].mode = "ws" /\ job[j].requested = "auto"
                        /\ job[j].pc = "done" /\ job[j].calls = 1
    /\ \E j \in Jobs : /\ job[j].mode = "http" /\ job[j].requested = "auto"
                        /\ job[j].pc = "done" /\ job[j].calls = 0
                        /\ job[j].response.translation = "null"

\* the connections that are open
OpenConns == {c \in Conns : sockets[c].state = "open"}

\* C34: the registry is exactly the set of open connections, and on every
\* connection the 'connected' notification is sent first, once, before any
\* notification of a job submitted on it
C34_RegistryIsOpenConns ==
    /\ clients = OpenConns
    /\ \A c \in Conns :
          sockets[c].received = IF sockets[c].state = "none" THEN <<>> ELSE <<"connected">>
    /\ \A j \in Jobs : job[j].ws \in Conns => sockets[job[j].ws].received # <<>>

\* one connection has closed after a job on it was answered, the other is
\* open and alone in the registry
C34_Witness ==
    \E c, d \in Conns :
        /\ sockets[c].state = "closed" /\ sockets[d].state = "open" /\ clients = {d}
        /\ \E j \in Jobs : job[j].ws = c /\ job[j].out # <<>>

\* job j handles a message of the front end: among the connections followed,
\* only the front end names a target language
FromFrontend(j) == job[j].mode = "ws" /\ job[j].requested \in FrontendLanguages

\* C35: the audio-chunk message of the front end carries its recording under
\* 'data' and has no 'audioData', so the server reads audioData as undefined,
\* answers with exactly one error notification and runs no pipeline stage
C35_FrontendChunkRejected ==
    /\ \A audioData \in Recordings, targetLanguage \in FrontendLanguages :
          LET message == sendAudioChunk(audioData, targetLanguage)
          IN  /\ message.type = "audio-chunk"
              /\ "audioData" \notin DOMAIN message
              /\ "data" \in DOMAIN message /\ message.data = audioData
              /\ Destructure(message).audioData = "undefined"
    /\ \A j \in Jobs :
          FromFrontend(j) =>
              /\ job[j].input = "undefined"
              /\ job[j].pc = "done" /\ job[j].outcome = "FAILED"
              /\ job[j].out = <<ErrorMsg("Transcription failed: ", "No audio data provided")>>
              /\ job[j].trace = <<>> /\ job[j].calls = 0
              /\ WrittenBy(j) = {}

\* a recording sent by the front end has been answered with its one error
\* while a message with sound audioData ran through the pipeline
C35_Witness ==
    \E i, j \in Jobs :
        /\ FromFrontend(i) /\ Len(job[i].out) = 1
        /\ ~FromFrontend(j) /\ job[j].input = "base64" /\ HasMsg(j, "transcription")

\* a socket of the service that has not closed yet
Live(sv, s) == sv.readyState[s] \in {"connecting", "open", "closing"}

\* a connect() is scheduled, or a socket is still to close and schedule one
ReconnectPending(sv) == sv.timers # <<>> \/ \E s \in Sockets : Live(sv, s)

\* C36: every close of a socket of the front end's service, also of one that
\* disconnect() has closed and let go, schedules a connect() in 3 seconds, so
\* that after disconnect() a reconnection is always under way; a message
\* given to sendMessage() while the socket is not open goes nowhere: it is
\* neither sent then nor when a socket opens later
C36_AlwaysReconnects ==
    [][/\ \A s \in Sockets :
             (Live(service, s) /\ service'.readyState[s] = "closed") =>
                 /\ service'.timers = Append(service.timers, ReconnectDelay)
                 /\ ~service'.connected
       /\ service'.socket = NoSocketYet => ReconnectPending(service')
       /\ service'.wire # service.wire =>
             /\ service.socket # NoSocketYet /\ service.readyState[service.socket] = "open"
             /\ Len(service'.wire) = Len(service.wire) + 1
             /\ service'.wire[Len(service'.wire)][1] = service.socket
             /\ service'.readyState = service.readyState
             /\ service'.dropped = service.dropped
       /\ service'.dropped # service.dropped =>
             /\ ~(service.socket # NoSocketYet /\ service.readyState[service.socket] = "open")
             /\ service'.wire = service.wire]_vars

\* after disconnect() the socket it closed has closed, a message given to
\* sendMessage() meanwhile was dropped, and the service is connected again on
\* a new socket on which nothing has been sent
C36_Witness ==
    /\ \E s \in service.detached : service.readyState[s] = "closed"
    /\ service.dropped > 0 /\ service.wire = <<>>
    /\ service.socket # NoSocketYet /\ service.socket \notin service.detached
    /\ service.readyState[service.socket] = "open" /\ service.connected

\* isRecording(): this.recordingSubject.value
isRecording == recorder.recording

\* the stop event of a MediaRecorder that stopped by itself is about to run
\* the handler that startRecording() set
OwnStopFires ==
    \E r \in recorder.ended :
        /\ recorder.events[r] # <<>> /\ Head(recorder.events[r]) = "stop"
        /\ recorder.onstop[r] = "emit"
        /\ recorder'.events[r] = Tail(recorder.events[r])

\* C37 as stated: once a recording has started the recording flag never
\* returns to false and the recorder component's timer is never stopped
C37_FlagStaysTrue ==
    recorder.started => (isRecording /\ recorder.recordingTimer)

\* C37: stopRecording() never returns the recording flag to false: the stop
\* it requests runs the handler it put in place of the one that emits false,
\* so when it resolves isRecording() and the component's timer are as they
\* were; the flag goes back to false, and the timer stops, only when a
\* MediaRecorder stopped by itself and still had the handler of
\* startRecording()
C37_StopLeavesFlag ==
    [][/\ recorder'.resolved # recorder.resolved =>
             /\ recorder'.recording = recorder.recording
             /\ recorder'.recordingTimer = recorder.recordingTimer
       /\ (recorder.recording /\ ~recorder'.recording) => OwnStopFires
       /\ (recorder.recordingTimer /\ ~recorder'.recordingTimer) => OwnStopFires
       /\ (recorder.ended = {} /\ recorder.started) => (isRecording /\ recorder.recordingTimer)]_vars

\* stopRecording() has resolved for a recording that had started, no
\* MediaRecorder is left, and isRecording() is still true with the timer
\* running
C37_Witness ==
    /\ recorder.resolved > 0 /\ recorder.ended = {}
    /\ recorder.mediaRecorder = NoRecorder
    /\ \A r \in Recorders : recorder.state[r] # "recording" /\ recorder.events[r] = <<>>
    /\ isRecording /\ recorder.recordingTimer
====
